---- MODULE Spec2Model ----
(***************************************************************************)
(* A model of img-proxy (main.go): the ingest handler handleProxy with its *)
(* retry loop and key generation, the serve handler handleImage, and the   *)
(* background cleanup task startCleanupTask / cleanupOldFiles, all acting  *)
(* on one storage directory and one wall clock.                            *)
(*                                                                         *)
(* Time.  now is the wall clock counted in ticks of its own resolution:    *)
(* two reads of the clock with no Tick between them return the same value. *)
(* UnixNano is strictly monotone in the tick count, so the tick count      *)
(* stands for the UnixNano reading.  Second and Hour are time.Second and   *)
(* time.Hour expressed in ticks, scaled down to keep the clock small; the  *)
(* code only adds and compares durations.                                  *)
(*                                                                         *)
(* Text.  Strings the code parses (the posted url, the Content-Type        *)
(* header) are sequences of atoms, so TrimSpace and the cut at ";" are     *)
(* computed.  Strings the code only passes on are TLA+ strings.            *)
(***************************************************************************)
EXTENDS Integers, Sequences, FiniteSets, TLC

VARIABLES
    now,      \* the wall clock, in ticks
    CONFIG,   \* the configuration record filled by init()
    dirs,     \* the directories that exist under CONFIG.StoragePath
    store,    \* the files under CONFIG.StoragePath: file name -> [data, mtime]
    ing,      \* ing[p]: the handleProxy invocation of request p
    srv,      \* srv[q]: the handleImage invocation of request q
    evictor,  \* the goroutine running startCleanupTask
    ticker    \* the time.Ticker of startCleanupTask

vars == <<now, CONFIG, dirs, store, ing, srv, evictor, ticker>>

(***************************************************************************)
(* Bounds of the model.                                                    *)
(***************************************************************************)
\* time.Second in ticks (scaled).
Second == 1
\* Ticks the clock may run past the backoffs of a request, and seconds it
\* may run past the second tick of the ticker.
Slack == 1
\* Ticks the clock runs while several requests are in flight.
ConcClock == 1
\* The files found at startup are at most this many seconds old.
MaxAge == 2
\* Seconds in one time.Hour (scaled).
SecondsPerHour == 2

Hour == SecondsPerHour * Second

(***************************************************************************)
(* Small helpers.                                                          *)
(***************************************************************************)
Range(s) == {s[i] : i \in DOMAIN s}

(***************************************************************************)
(* Text: strings.TrimSpace and strings.Index on sequences of atoms.         *)
(***************************************************************************)
IsSpace(c) == c \in {" ", "\t", "\n", "\r"}

RECURSIVE TrimLeft(_)
TrimLeft(s) == IF s # <<>> /\ IsSpace(Head(s)) THEN TrimLeft(Tail(s)) ELSE s

RECURSIVE TrimRight(_)
TrimRight(s) ==
    IF s # <<>> /\ IsSpace(s[Len(s)])
    THEN TrimRight(SubSeq(s, 1, Len(s) - 1))
    ELSE s

\* A variant of TrimSpace that trims nothing.
NoTrim(s) == s

TrimSpace(s) == TrimRight(TrimLeft(s))

\* strings.Index(s, c): the 0-based place of the first c, or -1.
Index(s, c) ==
    IF \E i \in DOMAIN s : s[i] = c
    THEN (CHOOSE i \in DOMAIN s : s[i] = c /\ \A j \in 1..(i - 1) : s[j] # c) - 1
    ELSE -1

(***************************************************************************)
(* Configuration (init).  The defaults of getEnv; API_KEY and the expiry   *)
(* time are drawn from small sets by the initial predicates.               *)
(***************************************************************************)
APIKeys == {"", "k"}

Config(apiKey, expiry) ==
    [CustomDomain    |-> "https://images.qhaigc.net",
     PathPrefix      |-> "img/",
     APIKey          |-> apiKey,
     StoragePath     |-> "./storage",
     FileExpiryHours |-> expiry]

(***************************************************************************)
(* Responses.  The messages of main.go, named in ASCII:                    *)
(*   RequestFailed = "请求失败", UploadFailed = "图片上传失败，请联系管理员",       *)
(*   StorageFailed = "存储失败", NotFound = "图片不存在", ReadFailed = "读取失败".  *)
(***************************************************************************)
StatusOK == 200
StatusNotFound == 404
StatusInternalServerError == 500

NoResponse == [status |-> 0]

responseError(message) ==
    [status |-> StatusInternalServerError, error |-> message]

(***************************************************************************)
(* rateLimitHandler: where a request goes.  A path is a record: the root   *)
(* "/", "/proxy", a file path "/<dir><name>" with the name's parts, the    *)
(* directory path "/<dir>", a path "/<dir><name>/x" below a file name, or  *)
(* a path "/<dir>" followed by the segments segs.                          *)
(***************************************************************************)
rateLimitHandler(path, method) ==
    IF path.kind = "root" THEN "redirect"
    ELSE IF method = "OPTIONS" THEN "preflight"
    ELSE IF path.kind = "proxy" THEN "handleProxy"
    ELSE IF /\ path.kind \in {"file", "dir", "below", "segs"}
            /\ path.dir = CONFIG.PathPrefix
    THEN "handleImage"
    ELSE "redirect"

(***************************************************************************)
(* http.HandleFunc("/", ...) on the default ServeMux, line 112: a request  *)
(* whose path has "." or ".." segments is answered with a redirect to the  *)
(* clean path and does not reach the handler, unless its method is         *)
(* CONNECT, whose paths the mux leaves as they are.                        *)
(***************************************************************************)
HasDotSegments(path) ==
    path.kind = "segs" /\ \E i \in DOMAIN path.segs : path.segs[i] \in {".", ".."}

ServeMux(method, path) ==
    IF method # "CONNECT" /\ HasDotSegments(path) THEN "redirect" ELSE "handler"

(***************************************************************************)
(* filepath.Join(CONFIG.StoragePath, path), line 288, for a path of        *)
(* segments: filepath.Clean of the joined segments, relative to the        *)
(* working directory.  A ".." removes the segment before it; at the start  *)
(* it stays.                                                               *)
(***************************************************************************)
RECURSIVE CleanFrom(_, _)
CleanFrom(segs, acc) ==
    IF segs = <<>> THEN acc
    ELSE LET h == Head(segs)
         IN  IF h = "." THEN CleanFrom(Tail(segs), acc)
             ELSE IF h = ".." /\ acc # <<>> /\ acc[Len(acc)] # ".."
             THEN CleanFrom(Tail(segs), SubSeq(acc, 1, Len(acc) - 1))
             ELSE CleanFrom(Tail(segs), Append(acc, h))

Join(root, dir, segs) == CleanFrom(<<root, dir>> \o segs, <<>>)

\* The place of the file system a path of a serve request names is under
\* CONFIG.StoragePath.
UnderRoot(path) ==
    \/ path.kind \in {"file", "dir", "below"}
    \/ /\ path.kind = "segs"
       /\ LET c == Join(CONFIG.StoragePath, path.dir, path.segs)
          IN  c # <<>> /\ c[1] = CONFIG.StoragePath

\* The files of the working directory outside the storage directory: the
\* server binary (Dockerfile: WORKDIR /root/, COPY ... /app/server .).
Outside == [c \in {<<"server">>} |-> [data |-> <<9>>, mtime |-> 0]]

(***************************************************************************)
(* getExtFromContentType.                                                  *)
(***************************************************************************)
\* A variant of getExtFromContentType whose default is another extension.
getExtOrBin(ct) ==
    IF ct \in {<<"image/jpeg">>, <<"image/jpg">>} THEN "jpg"
    ELSE IF ct = <<"image/png">> THEN "png"
    ELSE IF ct = <<"image/webp">> THEN "webp"
    ELSE IF ct = <<"image/gif">> THEN "gif"
    ELSE "bin"

getExtFromContentType(ct) ==
    IF ct \in {<<"image/jpeg">>, <<"image/jpg">>} THEN "jpg"
    ELSE IF ct = <<"image/png">> THEN "png"
    ELSE IF ct = <<"image/webp">> THEN "webp"
    ELSE IF ct = <<"image/gif">> THEN "gif"
    ELSE "png"

(***************************************************************************)
(* downloadImage.  o is what the network gives for one GET: an error of    *)
(* http.NewRequestWithContext or http.DefaultClient.Do (the 5 s timeout    *)
(* included), or a response with its status, Content-Type header and body  *)
(* (readOk: whether io.ReadAll of the body succeeds).                      *)
(***************************************************************************)
ErrBodyLimit == 100

NilError == [kind |-> "nil"]

LimitRead(body) ==
    SubSeq(body, 1, IF Len(body) < ErrBodyLimit THEN Len(body) ELSE ErrBodyLimit)

downloadImage(o) ==
    IF o.kind = "error"
    THEN [data |-> <<>>, ct |-> <<>>, err |-> [kind |-> "do", detail |-> o.err]]
    ELSE IF o.status >= 500 \/ o.status = 429
    THEN [data |-> <<>>, ct |-> <<>>,
          err |-> [kind |-> "server error", status |-> o.status,
                   body |-> LimitRead(o.body)]]
    ELSE IF o.status >= 400
    THEN [data |-> <<>>, ct |-> <<>>,
          err |-> [kind |-> "client error", status |-> o.status,
                   body |-> LimitRead(o.body)]]
    ELSE IF ~o.readOk
    THEN [data |-> <<>>, ct |-> <<>>, err |-> [kind |-> "read"]]
    ELSE LET idx == Index(o.header, ";")
             ct  == IF idx # -1 THEN SubSeq(o.header, 1, idx) ELSE o.header
         IN  [data |-> o.body, ct |-> TrimSpace(ct), err |-> NilError]

(***************************************************************************)
(* What the network may give for one GET.                                  *)
(***************************************************************************)
Payloads == {<<>>, <<1>>, <<2, 3>>}

Headers ==
    { <<"image/jpeg">>, <<"image/jpg">>, <<"image/png">>, <<"image/webp">>,
      <<"image/gif">>, <<" ", "image/png", " ", ";", "q=1">>,
      <<"application/octet-stream">>, <<>> }

Responses(statuses, headers, bodies) ==
    [kind : {"response"}, status : statuses, header : headers, body : bodies,
     readOk : {TRUE}]

Successes ==
    Responses({200}, Headers, Payloads)
    \cup Responses({304}, {<<"image/gif">>}, {<<>>})

Failures ==
    Responses({404, 429}, {<<>>}, {<<>>})
    \cup Responses({500}, {<<>>}, {<<>>, <<1>>})
    \cup [kind : {"response"}, status : {200}, header : {<<"image/png">>},
          body : {<<1>>}, readOk : {FALSE}]
    \cup [kind : {"error"}, err : {"timeout", "refused"}]

\* Every success, two failures.
FetchOutcomes ==
    Successes \cup {o \in Failures : o.kind = "error" \/ o.body = <<1>>}

\* Every failure, two successes.
RetryOutcomes ==
    Failures \cup Responses({200}, {<<"image/png">>, <<"image/jpg">>}, {<<2, 3>>})

\* The outcomes the specifications with several requests in flight draw from.
FewOutcomes ==
    Responses({200}, {<<"image/png">>, <<"image/jpg">>}, {<<1>>, <<2, 3>>})

\* An image with every Content-Type header.
TypeOutcomes == Responses({200}, Headers, {<<1>>})

TwoOutcomes == Responses({200}, {<<"image/png">>}, {<<1>>, <<2, 3>>})

(***************************************************************************)
(* Requests to /proxy: the method, the X-API-Key header and the JSON body  *)
(* (ok: whether it decodes into map[string]string; url: data["url"], ""    *)
(* when the key is missing).                                               *)
(***************************************************************************)
Urls ==
    { <<>>, <<" ">>, <<"\t", " ">>, <<"h">>, <<" ", "h", "\t">>,
      <<"h", " ", "h">> }

ProxyPath == [kind |-> "proxy"]

ProxyRequests ==
    [path : {ProxyPath}, method : {"POST", "GET"}, apiKey : {"", "k"},
     body : [ok : {TRUE}, url : Urls]
            \cup {[ok |-> FALSE, url |-> <<>>]}]

FewRequests ==
    {[path |-> ProxyPath, method |-> "POST", apiKey |-> CONFIG.APIKey,
      body |-> [ok |-> TRUE, url |-> <<"h">>]]}

NoRequest ==
    [path |-> ProxyPath, method |-> "", apiKey |-> "",
     body |-> [ok |-> FALSE, url |-> <<>>]]

(***************************************************************************)
(* handleProxy, one invocation per p.  Its places (pc):                    *)
(*   idle   no request yet                                                 *)
(*   fetch  at the call of downloadImage, line 198                         *)
(*   sleep  in time.Sleep, line 204                                        *)
(*   stamp  before time.Now().UnixNano(), line 219                         *)
(*   rand   in the loop of randomString                                    *)
(*   mkdir  before os.MkdirAll, line 222                                   *)
(*   write  before os.WriteFile, line 228                                  *)
(*   done   the response is written                                        *)
(* hist, sleeps and wrote record what the invocation did: the time of     *)
(* every downloadImage call with what the network gave and the error       *)
(* returned, the durations it slept, the files it created or wrote.        *)
(* mkdirErr and writeErr are the errors of os.MkdirAll and os.WriteFile    *)
(* ("" before the call).                                                   *)
(***************************************************************************)
Procs == {1, 2}

NoFile == [kind |-> "none"]

IdleIngest ==
    [pc |-> "idle", req |-> NoRequest, imageURL |-> <<>>, i |-> 0,
     imageData |-> <<>>, contentType |-> <<>>, err |-> NilError,
     ext |-> "", ts |-> 0, b |-> <<>>, filename |-> NoFile, wake |-> 0,
     mkdirErr |-> "", writeErr |-> "", resp |-> NoResponse,
     hist |-> <<>>, sleeps |-> <<>>, wrote |-> {}]

\* Lines 171-191: the method, the API key, the body, the url.
ProxyReceive(p, requests) ==
    /\ ing[p].pc = "idle"
    /\ \E req \in requests :
         /\ rateLimitHandler(req.path, req.method) = "handleProxy"
         /\ LET imageURL == TrimSpace(req.body.url)
                rejected ==
                    \/ req.method # "POST"
                    \/ CONFIG.APIKey # "" /\ req.apiKey # CONFIG.APIKey
                    \/ ~req.body.ok
                    \/ imageURL = <<>>
            IN  ing' = [ing EXCEPT ![p] =
                    IF rejected
                    THEN [@ EXCEPT !.pc = "done", !.req = req,
                                   !.resp = responseError("RequestFailed")]
                    ELSE [@ EXCEPT !.pc = "fetch", !.req = req,
                                   !.imageURL = imageURL, !.i = 0]]
    /\ UNCHANGED <<now, CONFIG, dirs, store, srv, evictor, ticker>>

\* A variant of AfterLoop that puts the error of the download in the response.
AfterLoopLeaky(st) ==
    IF st.err # NilError
    THEN [st EXCEPT !.pc = "done",
                    !.resp = [status |-> StatusInternalServerError,
                              error |-> st.err.kind]]
    ELSE LET ext == getExtFromContentType(st.contentType)
         IN  [st EXCEPT !.pc = "stamp", !.ext = IF ext = "" THEN "png" ELSE ext]

\* Lines 208-217, reached when the loop ends: the error response, or on to
\* the file name.  (The test ext == "" of line 215 never holds:
\* getExtFromContentType returns no empty string.)
AfterLoop(st) ==
    IF st.err # NilError
    THEN [st EXCEPT !.pc = "done", !.resp = responseError("UploadFailed")]
    ELSE LET ext == getExtFromContentType(st.contentType)
         IN  [st EXCEPT !.pc = "stamp", !.ext = IF ext = "" THEN "png" ELSE ext]

\* A variant of Continue whose loop ends after two passes.
ContinueTwice(st) ==
    LET st2 == [st EXCEPT !.i = @ + 1]
    IN  IF st2.i < 2 THEN [st2 EXCEPT !.pc = "fetch"] ELSE AfterLoop(st2)

\* Line 197: i++ and the loop test.
Continue(st) ==
    LET st2 == [st EXCEPT !.i = @ + 1]
    IN  IF st2.i < 3 THEN [st2 EXCEPT !.pc = "fetch"] ELSE AfterLoop(st2)

\* A variant of AfterDownload without the break of line 200.
AfterDownloadNoBreak(st0, o, t) ==
    LET r  == downloadImage(o)
        st == [st0 EXCEPT !.imageData = r.data, !.contentType = r.ct,
                          !.err = r.err,
                          !.hist = Append(@, [at |-> t, o |-> o, err |-> r.err])]
    IN  IF r.err = NilError
        THEN Continue(st)
        ELSE IF st.i < 2
        THEN [st EXCEPT !.pc = "sleep",
                        !.wake = t + (st.i + 1) * Second,
                        !.sleeps = Append(@, (st.i + 1) * Second)]
        ELSE Continue(st)

\* A variant of AfterDownload that gives up at a client error.
AfterDownloadClientFatal(st0, o, t) ==
    LET r  == downloadImage(o)
        st == [st0 EXCEPT !.imageData = r.data, !.contentType = r.ct,
                          !.err = r.err,
                          !.hist = Append(@, [at |-> t, o |-> o, err |-> r.err])]
    IN  IF r.err = NilError \/ r.err.kind = "client error"
        THEN AfterLoop(st)
        ELSE IF st.i < 2
        THEN [st EXCEPT !.pc = "sleep",
                        !.wake = t + (st.i + 1) * Second,
                        !.sleeps = Append(@, (st.i + 1) * Second)]
        ELSE Continue(st)

\* A variant of AfterDownload that sleeps one second after every failure.
AfterDownloadFlat(st0, o, t) ==
    LET r  == downloadImage(o)
        st == [st0 EXCEPT !.imageData = r.data, !.contentType = r.ct,
                          !.err = r.err,
                          !.hist = Append(@, [at |-> t, o |-> o, err |-> r.err])]
    IN  IF r.err = NilError
        THEN AfterLoop(st)
        ELSE IF st.i < 2
        THEN [st EXCEPT !.pc = "sleep",
                        !.wake = t + 1 * Second,
                        !.sleeps = Append(@, 1 * Second)]
        ELSE Continue(st)

\* Lines 198-206 for one call of downloadImage, the network giving o at time t.
AfterDownload(st0, o, t) ==
    LET r  == downloadImage(o)
        st == [st0 EXCEPT !.imageData = r.data, !.contentType = r.ct,
                          !.err = r.err,
                          !.hist = Append(@, [at |-> t, o |-> o, err |-> r.err])]
    IN  IF r.err = NilError
        THEN AfterLoop(st)
        ELSE IF st.i < 2
        THEN [st EXCEPT !.pc = "sleep",
                        !.wake = t + (st.i + 1) * Second,
                        !.sleeps = Append(@, (st.i + 1) * Second)]
        ELSE Continue(st)

Download(p, outcomes) ==
    /\ ing[p].pc = "fetch"
    /\ \E o \in outcomes :
         ing' = [ing EXCEPT ![p] = AfterDownload(@, o, now)]
    /\ UNCHANGED <<now, CONFIG, dirs, store, srv, evictor, ticker>>

\* A variant of Wake that waits for a request for an image to finish.
WakeWhenQuiet(p) ==
    /\ ing[p].pc = "sleep"
    /\ now >= ing[p].wake
    /\ srv.pc \in {"idle", "done"}
    /\ ing' = [ing EXCEPT ![p] = Continue(@)]
    /\ UNCHANGED <<now, CONFIG, dirs, store, srv, evictor, ticker>>

\* time.Sleep returns once the duration has passed.
Wake(p) ==
    /\ ing[p].pc = "sleep"
    /\ now >= ing[p].wake
    /\ ing' = [ing EXCEPT ![p] = Continue(@)]
    /\ UNCHANGED <<now, CONFIG, dirs, store, srv, evictor, ticker>>

(***************************************************************************)
(* The file name, line 219: time.Now().UnixNano(), then randomString(6),   *)
(* which reads the clock once per character.                               *)
(***************************************************************************)
letters ==
    << "a", "b", "c", "d", "e", "f", "g", "h", "i", "j", "k", "l", "m", "n",
       "o", "p", "q", "r", "s", "t", "u", "v", "w", "x", "y", "z", "0", "1",
       "2", "3", "4", "5", "6", "7", "8", "9" >>

UnixNano(t) == t

\* fmt.Sprintf("%s%d-%s.%s", prefix, ts, suffix, ext)
FileName(prefix, ts, suffix, ext) ==
    [kind |-> "file", dir |-> prefix, ts |-> ts, rnd |-> suffix, ext |-> ext]

Stamp(p) ==
    /\ ing[p].pc = "stamp"
    /\ ing' = [ing EXCEPT ![p].pc = "rand", ![p].ts = UnixNano(now),
                          ![p].b = <<>>]
    /\ UNCHANGED <<now, CONFIG, dirs, store, srv, evictor, ticker>>

\* One pass of the loop of randomString(n); after the last, line 219-220.
randomString(st, n, t) ==
    LET b == Append(st.b, letters[(UnixNano(t) % Len(letters)) + 1])
    IN  IF Len(b) < n
        THEN [st EXCEPT !.b = b]
        ELSE [st EXCEPT !.b = b, !.pc = "mkdir",
                        !.filename = FileName(CONFIG.PathPrefix, st.ts, b, st.ext)]

RandChar(p) ==
    /\ ing[p].pc = "rand"
    /\ ing' = [ing EXCEPT ![p] = randomString(@, 6, now)]
    /\ UNCHANGED <<now, CONFIG, dirs, store, srv, evictor, ticker>>

(***************************************************************************)
(* Storage, lines 222-246.  os.MkdirAll and os.WriteFile may fail; a       *)
(* WriteFile that fails after opening the file leaves it created and       *)
(* truncated, with a part of the data.                                     *)
(***************************************************************************)
\* fmt.Sprintf("%s/%s", CONFIG.CustomDomain, filename)
ProxyURL(domain, filename) == <<domain, "/", filename>>

\* A variant of ProxyResult that reports the media type of the extension.
ProxyResultOfExt(st) ==
    [status |-> StatusOK, success |-> TRUE,
     url |-> ProxyURL(CONFIG.CustomDomain, st.filename),
     type |-> IF st.ext = "jpg" THEN <<"image/jpeg">>
              ELSE IF st.ext = "webp" THEN <<"image/webp">>
              ELSE IF st.ext = "gif" THEN <<"image/gif">>
              ELSE <<"image/png">>,
     size |-> Len(st.imageData)]

ProxyResult(st) ==
    [status |-> StatusOK, success |-> TRUE,
     url |-> ProxyURL(CONFIG.CustomDomain, st.filename),
     type |-> st.contentType, size |-> Len(st.imageData)]

MkdirAll(p) ==
    /\ ing[p].pc = "mkdir"
    /\ \/ /\ dirs' = dirs \cup {ing[p].filename.dir}
          /\ ing' = [ing EXCEPT ![p].pc = "write", ![p].mkdirErr = "nil"]
       \/ /\ ing[p].filename.dir \notin dirs
          /\ dirs' = dirs
          /\ ing' = [ing EXCEPT ![p].pc = "done", ![p].mkdirErr = "failed",
                                ![p].resp = responseError("StorageFailed")]
    /\ UNCHANGED <<now, CONFIG, store, srv, evictor, ticker>>

Put(files, name, data, t) ==
    [k \in DOMAIN files \cup {name} |->
        IF k = name THEN [data |-> data, mtime |-> t] ELSE files[k]]

WriteFile(p) ==
    /\ ing[p].pc = "write"
    /\ LET st == ing[p] IN
       \/ /\ st.filename.dir \in dirs
          /\ store' = Put(store, st.filename, st.imageData, now)
          /\ ing' = [ing EXCEPT ![p].pc = "done", ![p].writeErr = "nil",
                                ![p].wrote = @ \cup {st.filename},
                                ![p].resp = ProxyResult(st)]
       \/ /\ store' = store
          /\ ing' = [ing EXCEPT ![p].pc = "done", ![p].writeErr = "failed",
                                ![p].resp = responseError("StorageFailed")]
       \/ /\ st.filename.dir \in dirs
          /\ \E n \in 0..(Len(st.imageData) - 1) :
               store' = Put(store, st.filename, SubSeq(st.imageData, 1, n), now)
          /\ ing' = [ing EXCEPT ![p].pc = "done", ![p].writeErr = "failed",
                                ![p].wrote = @ \cup {st.filename},
                                ![p].resp = responseError("StorageFailed")]
    /\ UNCHANGED <<now, CONFIG, dirs, srv, evictor, ticker>>

(***************************************************************************)
(* The clock.                                                              *)
(***************************************************************************)
Tick(max) ==
    /\ now < max
    /\ now' = now + 1
    /\ UNCHANGED <<CONFIG, dirs, store, ing, srv, evictor, ticker>>

\* The clock as the cleanup task reads it, in whole seconds.
TickSecond(max) ==
    /\ now + 1 * Second <= max
    /\ now' = now + 1 * Second
    /\ UNCHANGED <<CONFIG, dirs, store, ing, srv, evictor, ticker>>

(***************************************************************************)
(* handleImage, one invocation.  Its places: idle, stat (before os.Stat,   *)
(* line 290), open (before os.Open, line 309), done.  seen records the     *)
(* ingests that had answered with success when the request came in.        *)
(***************************************************************************)
NoInfo == [err |-> "", isDir |-> FALSE, mtime |-> 0]

IdleServe ==
    [pc |-> "idle", path |-> NoFile, info |-> NoInfo, contentType |-> "",
     resp |-> NoResponse, seen |-> {}]

Succeeded(st) == st.pc = "done" /\ st.resp.status = StatusOK

\* The paths a client asks for: the stored files, the urls the ingests
\* returned, a file that was never stored, the directory of the prefix,
\* paths below a stored file, and paths with ".." segments.
ServePaths ==
    DOMAIN store
    \cup {ing[p].filename : p \in {q \in Procs : Succeeded(ing[q])}}
    \cup {FileName(CONFIG.PathPrefix, 0, <<>>, "gif"),
          [kind |-> "dir", dir |-> CONFIG.PathPrefix]}
    \cup {[kind |-> "below", dir |-> CONFIG.PathPrefix, file |-> k] :
             k \in DOMAIN store}
    \cup {[kind |-> "segs", dir |-> CONFIG.PathPrefix, segs |-> g] :
             g \in {<<"..">>, <<"..", "x">>, <<"..", "..", "server">>}}

ServeMethods == {"GET", "CONNECT"}

ServeReceive ==
    /\ srv.pc = "idle"
    /\ \E path \in ServePaths, method \in ServeMethods :
         /\ ServeMux(method, path) = "handler"
         /\ rateLimitHandler(path, method) = "handleImage"
         /\ srv' = [srv EXCEPT !.pc = "stat", !.path = path,
                               !.seen = {p \in Procs : Succeeded(ing[p])}]
    /\ UNCHANGED <<now, CONFIG, dirs, store, ing, evictor, ticker>>

\* os.Stat of a place given by its clean segments.
StatPlace(c) ==
    IF c \in DOMAIN Outside
    THEN [err |-> "nil", isDir |-> FALSE, mtime |-> Outside[c].mtime]
    ELSE IF \/ c \in {<<>>, <<CONFIG.StoragePath>>}
            \/ \E d \in dirs : c = <<CONFIG.StoragePath, d>>
    THEN [err |-> "nil", isDir |-> TRUE, mtime |-> 0]
    ELSE [err |-> "not exist", isDir |-> FALSE, mtime |-> 0]

\* os.Stat of filepath.Join(CONFIG.StoragePath, path).  A path below a
\* file fails with ENOTDIR, which is not a not-exist error.
Stat(path) ==
    IF path.kind = "file" /\ path \in DOMAIN store
    THEN [err |-> "nil", isDir |-> FALSE, mtime |-> store[path].mtime]
    ELSE IF path.kind = "dir" /\ path.dir \in dirs
    THEN [err |-> "nil", isDir |-> TRUE, mtime |-> 0]
    ELSE IF path.kind = "below" /\ path.file \in DOMAIN store
    THEN [err |-> "not a directory", isDir |-> FALSE, mtime |-> 0]
    ELSE IF path.kind = "segs"
    THEN StatPlace(Join(CONFIG.StoragePath, path.dir, path.segs))
    ELSE [err |-> "not exist", isDir |-> FALSE, mtime |-> 0]

\* Whether os.Open opens a path, and the bytes io.Copy then gives.
Opens(path) ==
    \/ path \in DOMAIN store
    \/ /\ path.kind = "segs"
       /\ Join(CONFIG.StoragePath, path.dir, path.segs) \in DOMAIN Outside

\* A variant that copies the first file of the storage directory.
BytesOfFirst(path) ==
    IF DOMAIN store # {}
    THEN store[CHOOSE k \in DOMAIN store : \A j \in DOMAIN store : k.ts <= j.ts].data
    ELSE Outside[Join(CONFIG.StoragePath, path.dir, path.segs)].data

Bytes(path) ==
    IF path \in DOMAIN store THEN store[path].data
    ELSE Outside[Join(CONFIG.StoragePath, path.dir, path.segs)].data

\* Lines 296-307: the media type of the extension.
ContentTypeOf(path) ==
    LET ext == IF path.kind = "file" THEN path.ext ELSE ""
    IN  IF ext \in {"jpg", "jpeg"} THEN "image/jpeg"
        ELSE IF ext = "png" THEN "image/png"
        ELSE IF ext = "webp" THEN "image/webp"
        ELSE IF ext = "gif" THEN "image/gif"
        ELSE "image/png"

\* Lines 290-307.  With an error that is not a not-exist error info is
\* nil, and info.IsDir() panics: the server recovers the panic of the
\* handler and closes the connection, no response is written.
ServeStat ==
    /\ srv.pc = "stat"
    /\ LET info == Stat(srv.path)
       IN  srv' = IF info.err = "not exist"
                  THEN [srv EXCEPT !.pc = "done", !.info = info,
                                   !.resp = [status |-> StatusNotFound,
                                             error |-> "NotFound"]]
                  ELSE IF info.err # "nil"
                  THEN [srv EXCEPT !.pc = "done", !.info = info,
                                   !.resp = [status |-> 0, panic |-> TRUE]]
                  ELSE IF info.isDir
                  THEN [srv EXCEPT !.pc = "done", !.info = info,
                                   !.resp = [status |-> StatusNotFound,
                                             error |-> "NotFound"]]
                  ELSE [srv EXCEPT !.pc = "open", !.info = info,
                                   !.contentType = ContentTypeOf(srv.path)]
    /\ UNCHANGED <<now, CONFIG, dirs, store, ing, evictor, ticker>>

\* Lines 309-320: os.Open, the headers and io.Copy.
ServeOpen ==
    /\ srv.pc = "open"
    /\ srv' = IF Opens(srv.path)
              THEN [srv EXCEPT !.pc = "done",
                               !.resp = [status |-> StatusOK,
                                         contentType |-> srv.contentType,
                                         etag |-> srv.info.mtime,
                                         body |-> Bytes(srv.path)]]
              ELSE [srv EXCEPT !.pc = "done",
                               !.resp = [status |-> StatusInternalServerError,
                                         error |-> "ReadFailed"]]
    /\ UNCHANGED <<now, CONFIG, dirs, store, ing, evictor, ticker>>

(***************************************************************************)
(* startCleanupTask and cleanupOldFiles.  The places of the goroutine:     *)
(*   off       not yet run                                                 *)
(*   begin     at the call of cleanupOldFiles                              *)
(*   readdir   in filepath.Walk, before the directory is read              *)
(*   visit     before the Lstat of the next name                           *)
(*   callback  in the function given to Walk, for the name cur             *)
(*   idle      at the select, waiting for ticker.C                         *)
(* filepath.Walk reads the names of a directory at once and then visits    *)
(* each; the model visits them in any order.  before is the store as the   *)
(* sweep found it at its start, failed whether a deletion of the sweep     *)
(* failed, and skipped the names the sweep passed over because their       *)
(* Lstat or their deletion failed; sweeps counts the sweeps begun.         *)
(* The ticker: next is the time of its next tick and pending whether a     *)
(* tick waits in ticker.C, which holds one; a tick that finds it full is   *)
(* dropped.                                                                *)
(***************************************************************************)
IdleEvictor ==
    [pc |-> "off", now |-> 0, names |-> {}, cur |-> NoFile, info |-> NoInfo,
     before |-> <<>>, failed |-> FALSE, skipped |-> {}, sweeps |-> 0]

NoTicker == [armed |-> FALSE, next |-> 0, pending |-> FALSE]

\* Lines 356-359.
startCleanupTask ==
    /\ evictor.pc = "off"
    /\ ticker' = [armed |-> TRUE, next |-> now + 1 * Hour, pending |-> FALSE]
    /\ evictor' = [evictor EXCEPT !.pc = "begin"]
    /\ UNCHANGED <<now, CONFIG, dirs, store, ing, srv>>

\* A variant of TickerFire: a timer that fires once and is not armed again.
TickerFireOnce ==
    /\ ticker.armed
    /\ now >= ticker.next
    /\ ticker' = [ticker EXCEPT !.pending = TRUE, !.armed = FALSE]
    /\ UNCHANGED <<now, CONFIG, dirs, store, ing, srv, evictor>>

\* The runtime sends a tick when its time has come.
TickerFire ==
    /\ ticker.armed
    /\ now >= ticker.next
    /\ ticker' = [ticker EXCEPT !.pending = TRUE, !.next = @ + 1 * Hour]
    /\ UNCHANGED <<now, CONFIG, dirs, store, ing, srv, evictor>>

\* A variant of ReceiveTick that starts a sweep at any place of the task.
ReceiveTickAnywhere ==
    /\ evictor.pc # "off"
    /\ ticker.pending
    /\ ticker' = [ticker EXCEPT !.pending = FALSE]
    /\ evictor' = [evictor EXCEPT !.pc = "begin"]
    /\ UNCHANGED <<now, CONFIG, dirs, store, ing, srv>>

\* Lines 361-366: case <-ticker.C.
ReceiveTick ==
    /\ evictor.pc = "idle"
    /\ ticker.pending
    /\ ticker' = [ticker EXCEPT !.pending = FALSE]
    /\ evictor' = [evictor EXCEPT !.pc = "begin"]
    /\ UNCHANGED <<now, CONFIG, dirs, store, ing, srv>>

\* Lines 370-371.
CleanupBegin ==
    /\ evictor.pc = "begin"
    /\ evictor' = [evictor EXCEPT !.pc = "readdir", !.now = now,
                                  !.before = store, !.failed = FALSE,
                                  !.skipped = {},
                                  !.sweeps = @ + 1]
    /\ UNCHANGED <<now, CONFIG, dirs, store, ing, srv, ticker>>

\* The place after one name: the next name, or the return to the select.
NextVisit(names) == IF names = {} THEN "idle" ELSE "visit"

WalkReadDir ==
    /\ evictor.pc = "readdir"
    /\ LET names == DOMAIN store
                     \cup {[kind |-> "dir", dir |-> d] : d \in dirs}
       IN  evictor' = [evictor EXCEPT !.names = names, !.pc = NextVisit(names)]
    /\ UNCHANGED <<now, CONFIG, dirs, store, ing, srv, ticker>>

\* os.Lstat of one name, then the call of the function.
WalkLstat ==
    /\ evictor.pc = "visit"
    /\ \E k \in evictor.names :
         evictor' = [evictor EXCEPT !.pc = "callback", !.cur = k,
                                    !.names = @ \ {k}, !.info = Stat(k)]
    /\ UNCHANGED <<now, CONFIG, dirs, store, ing, srv, ticker>>

\* A variant of Expired that takes an age equal to the expiry time as expired.
ExpiredAtExpiry(sweepNow, mtime, expiryDuration) ==
    sweepNow - mtime >= expiryDuration

\* os.Lstat of one name failing: the function is called with the error.
\* When the name is a directory, Walk does not read it and the files in it
\* are passed over.
WalkLstatFails ==
    /\ evictor.pc = "visit"
    /\ \E k \in evictor.names :
         LET under == IF k.kind = "dir"
                      THEN {f \in evictor.names :
                               f.kind = "file" /\ f.dir = k.dir}
                      ELSE {}
         IN  evictor' = [evictor EXCEPT !.pc = "callback", !.cur = k,
                                        !.names = @ \ ({k} \cup under),
                                        !.skipped = @ \cup under,
                                        !.info = [err |-> "lstat failed",
                                                  isDir |-> FALSE, mtime |-> 0]]
    /\ UNCHANGED <<now, CONFIG, dirs, store, ing, srv, ticker>>

\* Line 384.
Expired(sweepNow, mtime, expiryDuration) == sweepNow - mtime > expiryDuration

\* Lines 374-392 for a name that is not to be removed.
CallbackKeep ==
    /\ evictor.pc = "callback"
    /\ \/ evictor.info.err # "nil"
       \/ evictor.info.isDir
       \/ ~Expired(evictor.now, evictor.info.mtime, CONFIG.FileExpiryHours)
    /\ evictor' = [evictor EXCEPT !.pc = NextVisit(evictor.names),
                                  !.cur = NoFile, !.info = NoInfo,
                                  !.skipped = IF evictor.info.err # "nil"
                                              THEN @ \cup {evictor.cur}
                                              ELSE @]
    /\ UNCHANGED <<now, CONFIG, dirs, store, ing, srv, ticker>>

\* Lines 384-389, os.Remove succeeding.
CallbackRemove ==
    /\ evictor.pc = "callback"
    /\ evictor.info.err = "nil"
    /\ ~evictor.info.isDir
    /\ Expired(evictor.now, evictor.info.mtime, CONFIG.FileExpiryHours)
    /\ evictor.cur \in DOMAIN store
    /\ store' = [k \in DOMAIN store \ {evictor.cur} |-> store[k]]
    /\ evictor' = [evictor EXCEPT !.pc = NextVisit(evictor.names),
                                  !.cur = NoFile, !.info = NoInfo]
    /\ UNCHANGED <<now, CONFIG, dirs, ing, srv, ticker>>

\* A variant of CallbackRemoveFails in which the failure ends the walk.
CallbackRemoveAborts ==
    /\ evictor.pc = "callback"
    /\ evictor.info.err = "nil"
    /\ ~evictor.info.isDir
    /\ Expired(evictor.now, evictor.info.mtime, CONFIG.FileExpiryHours)
    /\ evictor' = [evictor EXCEPT !.pc = "idle", !.names = {},
                                  !.cur = NoFile, !.info = NoInfo,
                                  !.failed = TRUE,
                                  !.skipped = @ \cup {evictor.cur}]
    /\ UNCHANGED <<now, CONFIG, dirs, store, ing, srv, ticker>>

\* Lines 384-387, os.Remove failing.
CallbackRemoveFails ==
    /\ evictor.pc = "callback"
    /\ evictor.info.err = "nil"
    /\ ~evictor.info.isDir
    /\ Expired(evictor.now, evictor.info.mtime, CONFIG.FileExpiryHours)
    /\ evictor' = [evictor EXCEPT !.pc = NextVisit(evictor.names),
                                  !.cur = NoFile, !.info = NoInfo,
                                  !.failed = TRUE,
                                  !.skipped = @ \cup {evictor.cur}]
    /\ UNCHANGED <<now, CONFIG, dirs, store, ing, srv, ticker>>

(***************************************************************************)
(* One request to /proxy, any request and any network, no other activity,  *)
(* the clock running long enough for the first backoff.                    *)
(***************************************************************************)
InitIngest ==
    /\ now = 0
    /\ CONFIG \in {Config(k, Hour) : k \in APIKeys}
    /\ dirs = {}
    /\ store = <<>>
    /\ ing = [p \in Procs |-> IdleIngest]
    /\ srv = IdleServe
    /\ evictor = IdleEvictor
    /\ ticker = NoTicker

NextIngest ==
    \/ ProxyReceive(1, ProxyRequests)
    \/ Download(1, FetchOutcomes)
    \/ Wake(1)
    \/ Stamp(1)
    \/ RandChar(1)
    \/ MkdirAll(1)
    \/ WriteFile(1)
    \/ Tick(1 * Second + Slack)

SpecIngest == InitIngest /\ [][NextIngest]_vars

(***************************************************************************)
(* One valid request to /proxy against any failing network, the clock      *)
(* running long enough for both backoffs.                                  *)
(***************************************************************************)
NextRetry ==
    \/ ProxyReceive(1, FewRequests)
    \/ Download(1, RetryOutcomes)
    \/ Wake(1)
    \/ Stamp(1)
    \/ RandChar(1)
    \/ MkdirAll(1)
    \/ WriteFile(1)
    \/ Tick(3 * Second + Slack)

SpecRetry == InitIngest /\ [][NextRetry]_vars

(***************************************************************************)
(* One request to /proxy, one for every way handleProxy rejects a request  *)
(* and a valid one, against any failing network.                           *)
(***************************************************************************)
CauseRequests ==
    { [path |-> ProxyPath, method |-> "GET", apiKey |-> "k",
       body |-> [ok |-> TRUE, url |-> <<"h">>]],
      [path |-> ProxyPath, method |-> "POST", apiKey |-> "",
       body |-> [ok |-> TRUE, url |-> <<"h">>]],
      [path |-> ProxyPath, method |-> "POST", apiKey |-> "k",
       body |-> [ok |-> FALSE, url |-> <<>>]],
      [path |-> ProxyPath, method |-> "POST", apiKey |-> "k",
       body |-> [ok |-> TRUE, url |-> <<" ">>]],
      [path |-> ProxyPath, method |-> "POST", apiKey |-> "k",
       body |-> [ok |-> TRUE, url |-> <<"h">>]] }

NextFail ==
    \/ ProxyReceive(1, CauseRequests)
    \/ Download(1, RetryOutcomes)
    \/ Wake(1)
    \/ Stamp(1)
    \/ RandChar(1)
    \/ MkdirAll(1)
    \/ WriteFile(1)
    \/ Tick(3 * Second + Slack)

SpecFail == InitIngest /\ [][NextFail]_vars

(***************************************************************************)
(* Two requests to /proxy in flight and one to an image, the network       *)
(* answering with an image.                                                *)
(***************************************************************************)
InitConc ==
    /\ now = 0
    /\ CONFIG = Config("", 1 * Hour)
    /\ dirs = {}
    /\ store = <<>>
    /\ ing = [p \in Procs |-> IdleIngest]
    /\ srv = IdleServe
    /\ evictor = IdleEvictor
    /\ ticker = NoTicker

Ingest(p, outcomes) ==
    \/ ProxyReceive(p, FewRequests)
    \/ Download(p, outcomes)
    \/ Stamp(p)
    \/ RandChar(p)
    \/ MkdirAll(p)
    \/ WriteFile(p)

Serve == ServeReceive \/ ServeStat \/ ServeOpen

NextConc ==
    \/ \E p \in Procs : Ingest(p, FewOutcomes)
    \/ Serve
    \/ Tick(ConcClock)

SpecConc == InitConc /\ [][NextConc]_vars

(***************************************************************************)
(* One request to /proxy, the network answering with an image of any       *)
(* Content-Type, and one request to an image.                              *)
(***************************************************************************)
NextServe ==
    \/ Ingest(1, TypeOutcomes)
    \/ Serve
    \/ Tick(ConcClock)

SpecServe == InitConc /\ [][NextServe]_vars

(***************************************************************************)
(* The cleanup task alone, on a storage directory that holds files of any  *)
(* age at startup, with any expiry time.                                   *)
(***************************************************************************)
Expiries == {0, 1 * Second, 1 * Hour}

OldFile(age) ==
    FileName("img/", UnixNano(0 - age * Second), <<"a", "a", "a", "a", "a", "a">>, "png")

OldStores ==
    {[k \in {OldFile(a) : a \in ages} |-> [data |-> <<k.ts>>, mtime |-> k.ts]] :
        ages \in SUBSET (0..MaxAge)}

InitSweep ==
    /\ now = 0
    /\ CONFIG \in {Config("", e) : e \in Expiries}
    /\ dirs = {CONFIG.PathPrefix}
    /\ store \in OldStores
    /\ ing = [p \in Procs |-> IdleIngest]
    /\ srv = IdleServe
    /\ evictor = IdleEvictor
    /\ ticker = NoTicker

\* One sweep, its deletions succeeding.
SweepOnce ==
    \/ startCleanupTask
    \/ CleanupBegin
    \/ WalkReadDir
    \/ WalkLstat
    \/ CallbackKeep
    \/ CallbackRemove

Sweep == SweepOnce \/ TickerFire \/ ReceiveTick

SweepClock == 2 * Hour + Slack * Second

NextSweep ==
    \/ Sweep
    \/ CallbackRemoveFails
    \/ TickSecond(SweepClock)

SpecSweep == InitSweep /\ [][NextSweep]_vars

\* The process keeps running and deletions succeed.
NextSweepLive == Sweep \/ TickSecond(SweepClock)

SpecSweepLive ==
    /\ InitSweep
    /\ [][NextSweepLive]_vars
    /\ WF_vars(Sweep)
    /\ WF_vars(TickSecond(SweepClock))

(***************************************************************************)
(* The sweep of startup, with an Lstat or a deletion failing at any entry. *)
(***************************************************************************)
SweepStep == SweepOnce \/ CallbackRemoveFails \/ WalkLstatFails

NextSweepFail == SweepStep \/ TickSecond(Slack * Second)

SpecSweepFail ==
    /\ InitSweep
    /\ [][NextSweepFail]_vars
    /\ WF_vars(SweepStep)

(***************************************************************************)
(* A request for an image while the sweep of startup runs: the handler of  *)
(* the request and the goroutine of the cleanup task share no lock.        *)
(***************************************************************************)
NextServeSweep == Serve \/ SweepOnce \/ TickSecond(Slack * Second)

SpecServeSweep == InitSweep /\ [][NextServeSweep]_vars

(***************************************************************************)
(* A request to /proxy that retries, against a network that fails or       *)
(* answers, while a request for an image and the sweep of startup run.     *)
(* The goroutine of the handler is scheduled again and again, each call of *)
(* downloadImage returns (its context ends it after five seconds, line     *)
(* 250), and time passes while the handler sleeps.                         *)
(***************************************************************************)
TermOutcomes ==
    [kind : {"error"}, err : {"timeout"}]
    \cup Responses({200}, {<<"image/png">>}, {<<1>>})

Sleeping(p) == ing[p].pc = "sleep" /\ now < ing[p].wake

\* The clock, which does not stop while a handler is in time.Sleep.
TickSleep(max) ==
    /\ now < max \/ \E p \in Procs : Sleeping(p)
    /\ now' = now + 1
    /\ UNCHANGED <<CONFIG, dirs, store, ing, srv, evictor, ticker>>

InitTerm ==
    /\ now = 0
    /\ CONFIG = Config("", 0)
    /\ dirs = {}
    /\ store = <<>>
    /\ ing = [p \in Procs |-> IdleIngest]
    /\ srv = IdleServe
    /\ evictor = IdleEvictor
    /\ ticker = NoTicker

\* The steps of handleProxy after the request is admitted.
ProxyStep(p, outcomes) ==
    \/ Download(p, outcomes)
    \/ Wake(p)
    \/ Stamp(p)
    \/ RandChar(p)
    \/ MkdirAll(p)
    \/ WriteFile(p)

NextTerm ==
    \/ ProxyReceive(1, FewRequests)
    \/ ProxyStep(1, TermOutcomes)
    \/ Serve
    \/ SweepOnce
    \/ TickSleep(ConcClock)

SpecTerm ==
    /\ InitTerm
    /\ [][NextTerm]_vars
    /\ WF_vars(ProxyStep(1, TermOutcomes))
    /\ WF_vars(TickSleep(ConcClock))

(***************************************************************************)
(* Two requests to /proxy in flight while the cleanup task makes its       *)
(* sweep of startup, the expiry time being 0 or one hour.                  *)
(***************************************************************************)
Init ==
    /\ now = 0
    /\ CONFIG \in {Config("", e) : e \in {0, 1 * Hour}}
    /\ dirs = {}
    /\ store = <<>>
    /\ ing = [p \in Procs |-> IdleIngest]
    /\ srv = IdleServe
    /\ evictor = IdleEvictor
    /\ ticker = NoTicker

Next ==
    \/ \E p \in Procs : Ingest(p, TwoOutcomes)
    \/ SweepOnce
    \/ CallbackRemoveFails
    \/ Tick(ConcClock)

Spec == Init /\ [][Next]_vars

(***************************************************************************)
(* Properties of one ingest.                                               *)
(***************************************************************************)
SupportedTypes ==
    { <<"image/jpeg">>, <<"image/jpg">>, <<"image/png">>, <<"image/webp">>,
      <<"image/gif">> }

\* The media type of a Content-Type header: what stands before the first
\* ";", without the surrounding white space.
MediaType(header) ==
    TrimSpace(IF Index(header, ";") = -1
              THEN header
              ELSE SubSeq(header, 1, Index(header, ";")))

LastFetch(st) == st.hist[Len(st.hist)]

\* The request of st fetched a 2xx response with a supported media type and
\* its store write succeeded.
C1_Case(st) ==
    /\ st.pc = "done"
    /\ st.imageURL # <<>>
    /\ st.hist # <<>>
    /\ LastFetch(st).o.kind = "response"
    /\ LastFetch(st).o.status \in 200..299
    /\ LastFetch(st).o.readOk
    /\ MediaType(LastFetch(st).o.header) \in SupportedTypes
    /\ st.mkdirErr = "nil"
    /\ st.writeErr = "nil"

\* C1: an ingest of a non-empty url whose fetch returns a 2xx response with a
\* supported media type and whose store write succeeds answers success with
\* url = CustomDomain + "/" + key, type = the fetched media type and
\* size = the number of fetched bytes, and in the state the answer is made in
\* the store holds under that key an entry of that length.
C1_IngestSucceeds ==
    [][\A p \in Procs :
         (ing[p].pc # "done" /\ C1_Case(ing'[p])) =>
            LET st == ing'[p]
                o  == LastFetch(st).o
            IN  /\ st.resp.status = StatusOK
                /\ st.resp.success = TRUE
                /\ st.resp.url = <<CONFIG.CustomDomain, "/", st.filename>>
                /\ st.resp.type = MediaType(o.header)
                /\ st.resp.size = Len(o.body)
                /\ st.filename \in DOMAIN store'
                /\ Len(store'[st.filename].data) = st.resp.size]_vars

C1_Witness ==
    \E p \in Procs :
        /\ C1_Case(ing[p])
        /\ ing[p].resp.status = StatusOK
        /\ ing[p].resp.size = 2
        /\ ing[p].resp.type = <<"image/webp">>
        /\ ing[p].filename \in DOMAIN store
        /\ Len(ing[p].hist) = 2

\* Every fetch attempt of st returned HTTP 500.
AlwaysStatus(st, status) ==
    /\ st.hist # <<>>
    /\ \A k \in DOMAIN st.hist :
         st.hist[k].o.kind = "response" /\ st.hist[k].o.status = status

\* C2: an ingest whose every fetch attempt returns HTTP 500 makes exactly 3
\* attempts, then fails with the download-failed error, and has put nothing
\* in the store.
C2_Always500Fails ==
    \A p \in Procs :
        (ing[p].pc = "done" /\ AlwaysStatus(ing[p], 500)) =>
            /\ Len(ing[p].hist) = 3
            /\ ing[p].resp = responseError("UploadFailed")
            /\ ing[p].wrote = {}
            /\ store = <<>>

C2_Witness ==
    \E p \in Procs :
        /\ ing[p].pc = "done"
        /\ AlwaysStatus(ing[p], 500)
        /\ Len(ing[p].hist) = 3
        /\ ing[p].resp = responseError("UploadFailed")

\* C6: within one ingest attempt 2 starts at least 1 second after the failed
\* attempt 1 and attempt 3 at least 2 seconds after the failed attempt 2, the
\* delays do not decrease, and the third failure takes no delay: it is
\* answered at once, after the two delays only.
C6_Backoff ==
    \A p \in Procs :
        LET h == ing[p].hist
            s == ing[p].sleeps
        IN  /\ Len(h) >= 2 => h[2].at - h[1].at >= 1 * Second
            /\ Len(h) >= 3 => h[3].at - h[2].at >= 2 * Second
            /\ \A j, k \in DOMAIN s : j <= k => s[j] <= s[k]
            /\ Len(s) <= 2
            /\ (Len(h) = 3 /\ h[3].err # NilError) =>
                 /\ ing[p].pc = "done"
                 /\ ing[p].resp = responseError("UploadFailed")
                 /\ s = <<1 * Second, 2 * Second>>

C6_Witness ==
    \E p \in Procs :
        /\ Len(ing[p].hist) = 3
        /\ ing[p].hist[3].err # NilError
        /\ ing[p].hist[2].at - ing[p].hist[1].at = 1 * Second
        /\ ing[p].hist[3].at - ing[p].hist[2].at = 2 * Second
        /\ ing[p].pc = "done"

\* C10: a request whose url is empty or only white space is rejected with
\* the invalid-request error, fetches nothing and leaves the store as it was.
C10_BlankUrlRejected ==
    \A p \in Procs :
        (/\ ing[p].pc # "idle"
         /\ \A k \in DOMAIN ing[p].req.body.url : IsSpace(ing[p].req.body.url[k])) =>
            /\ ing[p].pc = "done"
            /\ ing[p].resp = responseError("RequestFailed")
            /\ ing[p].hist = <<>>
            /\ ing[p].wrote = {}
            /\ store = <<>>

C10_Witness ==
    \E p \in Procs :
        /\ ing[p].pc = "done"
        /\ ing[p].req.method = "POST"
        /\ ing[p].req.apiKey = CONFIG.APIKey
        /\ ing[p].req.body.ok
        /\ ing[p].req.body.url = <<"\t", " ">>
        /\ ing[p].resp = responseError("RequestFailed")

(***************************************************************************)
(* Properties of ingests in flight together, and of ingest and serve.      *)
(***************************************************************************)
\* The media type handleImage gives for the type an ingest reported.
ServedType(type) ==
    IF type \in {<<"image/jpeg">>, <<"image/jpg">>} THEN "image/jpeg"
    ELSE IF type = <<"image/webp">> THEN "image/webp"
    ELSE IF type = <<"image/gif">> THEN "image/gif"
    ELSE "image/png"

\* C3: a serve of the key a successful ingest returned, asked after the
\* ingest answered, goes to handleImage and returns the bytes that ingest
\* fetched, with the media type of the type that ingest reported.
C3_RoundTrip ==
    \A p \in Procs :
        (/\ srv.pc = "done"
         /\ p \in srv.seen
         /\ srv.path = ing[p].filename) =>
            /\ rateLimitHandler(ing[p].filename, "GET") = "handleImage"
            /\ srv.resp.status = StatusOK
            /\ srv.resp.body = LastFetch(ing[p]).o.body
            /\ srv.resp.contentType = ServedType(ing[p].resp.type)

\* C4: two ingests that both succeed generate distinct keys.
C4_KeysDistinct ==
    \A p, q \in Procs :
        (p # q /\ Succeeded(ing[p]) /\ Succeeded(ing[q])) =>
            ing[p].filename # ing[q].filename

\* C9: the bytes stored under a key never change while the key is stored.
C9_EntriesImmutable ==
    [][\A k \in DOMAIN store :
         k \in DOMAIN store' => store'[k].data = store[k].data]_vars

(***************************************************************************)
(* Properties of the cleanup task.                                         *)
(***************************************************************************)
SweepDone == evictor.pc = "idle" /\ evictor.sweeps > 0

\* C5: a sweep without deletion failures, on a store nothing else writes
\* to, removes exactly the entries whose age at the start of the sweep is
\* greater than the expiry time; the others are as they were.
C5_SweepRemovesExpired ==
    (SweepDone /\ ~evictor.failed) =>
        LET kept == {k \in DOMAIN evictor.before :
                        evictor.now - evictor.before[k].mtime
                            <= CONFIG.FileExpiryHours}
        IN  store = [k \in kept |-> evictor.before[k]]

C5_Witness ==
    /\ SweepDone
    /\ ~evictor.failed
    /\ DOMAIN store # {}
    /\ DOMAIN store # DOMAIN evictor.before
    /\ CONFIG.FileExpiryHours = 1 * Hour

\* C7: an entry leaves the store only in a step of the cleanup task, for
\* the name it has just found expired, and the entry removed is itself
\* older than the expiry time (so it was not written during the sweep).
C7_OnlyExpiredDeleted ==
    [][\A k \in DOMAIN store :
         k \notin DOMAIN store' =>
            /\ evictor.pc = "callback"
            /\ evictor.cur = k
            /\ evictor.now - evictor.info.mtime > CONFIG.FileExpiryHours
            /\ now - store[k].mtime > CONFIG.FileExpiryHours
            /\ store[k].mtime < evictor.now
            /\ ing' = ing
            /\ srv' = srv]_vars

\* C8: the cleanup task sweeps at startup and after every tick it receives,
\* and a sweep leaves no entry that was expired at its start; so every entry
\* whose age exceeds the expiry time is deleted in the end (as long as the
\* clock, which stops at SweepClock, runs one more hour after the entry
\* expired: no entry that was expired an hour before the end stays).
C8_ExpiredDeleted ==
    /\ [](SweepDone =>
            \A k \in DOMAIN store :
                evictor.now - store[k].mtime <= CONFIG.FileExpiryHours)
    /\ <>[](\A k \in DOMAIN store :
                (SweepClock - 1 * Hour) - store[k].mtime
                    <= CONFIG.FileExpiryHours)

C8_Witness ==
    /\ SweepDone
    /\ evictor.sweeps = 2
    /\ OldFile(0) \in DOMAIN evictor.before
    /\ OldFile(0) \notin DOMAIN store
    /\ CONFIG.FileExpiryHours = 1 * Hour

(***************************************************************************)
(* Properties of failed ingests and of the retry loop.                     *)
(***************************************************************************)
\* C12: an ingest that fails leaves nothing in the store: no file and no
\* part of a file.
C12_FailedIngestLeavesNothing ==
    \A p \in Procs :
        (ing[p].pc = "done" /\ ing[p].resp.status # StatusOK) =>
            /\ ing[p].wrote = {}
            /\ store = <<>>

GenericMessages == {"RequestFailed", "UploadFailed", "StorageFailed"}

\* C13: every failed ingest answers status 500 with one of three fixed
\* messages, and the message depends only on the step that failed (the
\* request, the download, the storage), not on the error of the download.
C13_UniformErrors ==
    \A p \in Procs :
        (ing[p].pc = "done" /\ ~Succeeded(ing[p])) =>
            /\ ing[p].resp \in {[status |-> 500, error |-> m] :
                                   m \in GenericMessages}
            /\ ing[p].hist = <<>> =>
                 ing[p].resp.error = "RequestFailed"
            /\ (ing[p].hist # <<>> /\ LastFetch(ing[p]).err # NilError) =>
                 ing[p].resp.error = "UploadFailed"
            /\ (ing[p].hist # <<>> /\ LastFetch(ing[p]).err = NilError) =>
                 ing[p].resp.error = "StorageFailed"

C13_Witness ==
    \E p \in Procs :
        /\ ing[p].pc = "done"
        /\ Len(ing[p].hist) = 3
        /\ ing[p].hist[3].err.kind = "server error"
        /\ ing[p].hist[3].err.body = <<1>>
        /\ ing[p].resp = [status |-> 500, error |-> "UploadFailed"]

\* The request of st has gone on to the storage steps.
Proceeds(st) ==
    \/ st.pc \in {"stamp", "rand", "mkdir", "write"}
    \/ st.pc = "done" /\ st.mkdirErr # ""

\* C16: the retry loop makes no attempt after a success and at most 3;
\* the ingest goes on to storage exactly when its last attempt succeeded,
\* fails after 3 attempts otherwise, and stores the payload and the media
\* type of the attempt that succeeded.
C16_StopsAtFirstSuccess ==
    \A p \in Procs :
        LET st == ing[p]
            h  == st.hist
        IN  h # <<>> =>
              /\ Len(h) <= 3
              /\ \A k \in 1..(Len(h) - 1) : h[k].err # NilError
              /\ Proceeds(st) <=> LastFetch(st).err = NilError
              /\ (st.pc = "done" /\ LastFetch(st).err # NilError) => Len(h) = 3
              /\ LastFetch(st).err = NilError =>
                   /\ st.imageData = LastFetch(st).o.body
                   /\ st.contentType = MediaType(LastFetch(st).o.header)
                   /\ st.writeErr = "nil" =>
                        /\ store[st.filename].data = LastFetch(st).o.body
                        /\ st.resp.type = MediaType(LastFetch(st).o.header)

C16_Witness ==
    \E p \in Procs :
        /\ ing[p].pc = "done"
        /\ Len(ing[p].hist) = 2
        /\ ing[p].hist[1].err # NilError
        /\ ing[p].hist[2].err = NilError
        /\ ing[p].writeErr = "nil"
        /\ store[ing[p].filename].data = <<2, 3>>

\* C17: a failed attempt is retried the same way whatever its error: the
\* k-th failure, k < 3, is followed by a sleep of k seconds and another
\* attempt, and the third by the error response.
C17_ErrorKindsAlike ==
    \A p \in Procs :
        LET st == ing[p]
            h  == st.hist
            s  == st.sleeps
        IN  \A k \in DOMAIN h :
              h[k].err # NilError =>
                /\ k <= 3
                /\ k < 3 =>
                     /\ Len(s) >= k
                     /\ s[k] = k * Second
                     /\ Len(h) = k => st.pc \in {"sleep", "fetch"}
                     /\ Len(h) > k => h[k + 1].at >= h[k].at + k * Second
                /\ k = 3 =>
                     /\ st.pc = "done"
                     /\ st.resp = responseError("UploadFailed")
                     /\ Len(s) = 2

C17_Witness ==
    \E p \in Procs :
        /\ ing[p].pc = "done"
        /\ Len(ing[p].hist) = 3
        /\ ing[p].hist[1].err.kind = "client error"
        /\ ing[p].hist[2].err.kind = "do"
        /\ ing[p].hist[3].err.kind = "server error"
        /\ ing[p].sleeps = <<1 * Second, 2 * Second>>

(***************************************************************************)
(* Properties of handleImage.                                              *)
(***************************************************************************)
\* C11: when the fetched content type is none of the supported ones, the
\* key has the extension png, and a serve of the key, asked after the
\* ingest answered, responds with the media type image/png.
C11_PngFallback ==
    \A p \in Procs :
        (/\ ing[p].filename # NoFile
         /\ MediaType(LastFetch(ing[p]).o.header) \notin SupportedTypes) =>
            /\ ing[p].filename.ext = "png"
            /\ (srv.pc = "done" /\ p \in srv.seen
                    /\ srv.path = ing[p].filename) =>
                 /\ srv.resp.status = StatusOK
                 /\ srv.resp.contentType = "image/png"

C11_Witness ==
    \E p \in Procs :
        /\ ing[p].hist # <<>>
        /\ LastFetch(ing[p]).o.header = <<"application/octet-stream">>
        /\ srv.pc = "done"
        /\ p \in srv.seen
        /\ srv.path = ing[p].filename
        /\ srv.resp.contentType = "image/png"

\* C14: a serve of a key that is not in the store, or that is a directory,
\* responds not-found and opens nothing.
C14_NotFound ==
    [][(/\ srv.pc = "stat"
        /\ srv' # srv
        /\ UnderRoot(srv.path)
        /\ srv.path \notin DOMAIN store) =>
            /\ srv'.pc = "done"
            /\ srv'.resp = [status |-> StatusNotFound, error |-> "NotFound"]]_vars

\* C15: the place a serve request stats and opens is under the storage
\* directory.
C15_UnderStorageRoot ==
    srv.pc \in {"open", "done"} => UnderRoot(srv.path)

\* C20: when os.Stat fails with an error that is not a not-exist error the
\* serve still completes, with a not-found or a read-failure response.
C20_StatErrorsHandled ==
    (srv.pc = "done" /\ srv.info.err \notin {"nil", "not exist"}) =>
        srv.resp.status \in {StatusNotFound, StatusInternalServerError}

(***************************************************************************)
(* Properties of the scheduling of the cleanup task and of its failures.   *)
(***************************************************************************)
Sweeping == evictor.pc \in {"begin", "readdir", "visit", "callback"}

\* C18: a sweep starts only from the place where the task waits for the
\* ticker (or from its start): never while another sweep is in progress,
\* also when a sweep lasts longer than the period and a tick is waiting.
C18_OneSweepAtATime ==
    [][/\ (evictor'.pc = "begin" /\ evictor.pc # "begin") =>
             evictor.pc \in {"off", "idle"}
       /\ evictor'.sweeps # evictor.sweeps =>
             /\ evictor.pc = "begin"
             /\ evictor'.sweeps = evictor.sweeps + 1]_vars

C18_Witness ==
    /\ Sweeping
    /\ evictor.sweeps = 2
    /\ ticker.pending
    /\ now >= evictor.now + 1 * Hour

\* C19: a sweep that has begun returns to idle, whatever fails; an entry
\* whose deletion failed stays as it was, and every other expired entry
\* whose Lstat succeeded is deleted by the same sweep.
C19_SweepCompletes ==
    /\ [](SweepDone =>
            \A k \in DOMAIN evictor.before :
                /\ (/\ evictor.now - evictor.before[k].mtime
                          > CONFIG.FileExpiryHours
                    /\ k \notin evictor.skipped) => k \notin DOMAIN store
                /\ k \in evictor.skipped =>
                     /\ k \in DOMAIN store
                     /\ store[k] = evictor.before[k])
    /\ Sweeping ~> (evictor.pc = "idle")

C19_Witness ==
    /\ SweepDone
    /\ evictor.failed
    /\ \E k \in evictor.skipped : k \in DOMAIN store
    /\ \E k \in DOMAIN evictor.before : k \notin DOMAIN store
    /\ CONFIG.FileExpiryHours = 0

(***************************************************************************)
(* C21: a request for an image and a sweep interleave freely.  A request   *)
(* answered with content carries the bytes of the file it asked for and    *)
(* of no other stored file; a request answered with the read failure is   *)
(* one whose Stat found the file and whose Open came after the sweep had   *)
(* deleted it.  The witness is that interleaving: Stat finds the file, the *)
(* sweep deletes it, Open fails and the answer is the read failure, not    *)
(* the not-found answer.                                                   *)
(***************************************************************************)
StartupFiles == {OldFile(a) : a \in 0..MaxAge}

C21_ServeAndSweepRace ==
    /\ Succeeded(srv) =>
          /\ srv.path \in StartupFiles => srv.resp.body = <<srv.path.ts>>
          /\ \A k \in StartupFiles \ {srv.path} : srv.resp.body # <<k.ts>>
    /\ (srv.pc = "done" /\ srv.resp.status = StatusInternalServerError) =>
          /\ srv.info.err = "nil"
          /\ ~srv.info.isDir
          /\ srv.path \notin DOMAIN store
          /\ srv.path \in DOMAIN evictor.before

C21_Witness ==
    /\ srv.pc = "done"
    /\ srv.info.err = "nil"
    /\ srv.resp = [status |-> StatusInternalServerError, error |-> "ReadFailed"]
    /\ srv.path \in DOMAIN evictor.before
    /\ srv.path \notin DOMAIN store
    /\ \E k \in DOMAIN store : k # srv.path

(***************************************************************************)
(* C22: every admitted request to /proxy ends with exactly one response,   *)
(* after at most 3 calls of downloadImage and at most 2 sleeps, whatever   *)
(* the request for an image and the sweep do meanwhile: the response is    *)
(* written at the step that ends the handler and never again, and the      *)
(* handler, once past the validation, always reaches its end.              *)
(***************************************************************************)
Admitted(st) == st.pc \notin {"idle", "done"}

====
